---- MODULE Spec2Model ----
(***************************************************************************)
(* Model of src/pages/Index.tsx: the inference form (react-hook-form with  *)
(* a zod resolver), the image picker and the onSubmit request/response     *)
(* cycle.                                                                  *)
(*                                                                         *)
(* Texts are sequences of runs <<chunk, n>>: the string `chunk` repeated n *)
(* times.  A chunk is either one white-space character or a piece of text  *)
(* that neither starts nor ends with white space where it can be trimmed.  *)
(***************************************************************************)
EXTENDS Integers, Sequences, FiniteSets, TLC

\* ------------------------------------------------------------------ bounds
\* handleSubmit/onSubmit invocations that may be in progress at once
MaxPending == 2
\* FileReader reads that may be pending at once
MaxReads == 3

\* ------------------------------------------------------------------- texts
WhiteSpace == {" ", "\n", "\t"}

T(s) == << <<s, 1>> >>
Rep(c, n) == IF n = 0 THEN <<>> ELSE << <<c, n>> >>

RECURSIVE TextLen(_)
TextLen(t) == IF t = <<>> THEN 0 ELSE Len(Head(t)[1]) * Head(t)[2] + TextLen(Tail(t))

RECURSIVE Str(_)
Str(t) ==
  IF t = <<>> THEN ""
  ELSE IF Head(t)[2] = 1 THEN Head(t)[1] \o Str(Tail(t))
  ELSE Head(t)[1] \o Str(<< <<Head(t)[1], Head(t)[2] - 1>> >> \o Tail(t))

RECURSIVE TrimStart(_)
TrimStart(t) == IF t # <<>> /\ Head(t)[1] \in WhiteSpace THEN TrimStart(Tail(t)) ELSE t

RECURSIVE TrimEnd(_)
TrimEnd(t) ==
  IF t # <<>> /\ t[Len(t)][1] \in WhiteSpace THEN TrimEnd(SubSeq(t, 1, Len(t) - 1)) ELSE t

\* String.prototype.trim
Trim(t) == TrimEnd(TrimStart(t))

\* ------------------------------------------------------------- formSchema
PromptMax == 2000
SystemMax == 500

NoMessage == ""
PromptRequired == "Prompt is required"
PromptTooLong == "Prompt must be less than 2000 characters"
SystemTooLong == "System message must be less than 500 characters"

\* z.string().trim().min(1, ...).max(2000, ...)
PromptIssueMutantNoMin(prompt) ==
  IF TextLen(Trim(prompt)) > PromptMax THEN PromptTooLong ELSE NoMessage
PromptIssueMutantOffByOne(prompt) ==
  IF TextLen(Trim(prompt)) < 1 THEN PromptRequired
  ELSE IF TextLen(Trim(prompt)) > PromptMax + 1 THEN PromptTooLong
  ELSE NoMessage
PromptIssue(prompt) ==
  IF TextLen(Trim(prompt)) < 1 THEN PromptRequired
  ELSE IF TextLen(Trim(prompt)) > PromptMax THEN PromptTooLong
  ELSE NoMessage

\* z.string().trim().max(500, ...)
SystemIssue(system) ==
  IF TextLen(Trim(system)) > SystemMax THEN SystemTooLong ELSE NoMessage

\* zodResolver(formSchema): the errors of the values (mode and chainedMode
\* always parse: the controls only produce members of the enum and booleans)
ResolverErrors(values) ==
  [prompt |-> PromptIssue(values.prompt), system |-> SystemIssue(values.system)]

NoErrors == [prompt |-> NoMessage, system |-> NoMessage]

\* the parsed output of the schema: the strings trimmed
ParsedData(values) ==
  [mode |-> values.mode, prompt |-> Trim(values.prompt),
   system |-> Trim(values.system), chainedMode |-> values.chainedMode]

\* useForm defaultValues
DefaultSystem == T("You are a helpful medical assistant.")
DefaultValues ==
  [mode |-> "text", prompt |-> <<>>, system |-> DefaultSystem, chainedMode |-> FALSE]

\* -------------------------------------------------- onSubmit: the request
NoFile == "null"

\* onSubmit lines 66-67: image mode without a selected image
MissingImageMutantNever(data, image) == FALSE
MissingImage(data, image) == data.mode = "image" /\ image = NoFile

\* onSubmit lines 77 and 80
FetchUrlMutantChainedIgnored(data) ==
  IF data.mode = "image" THEN "/predict/image" ELSE "/predict/text"
FetchUrl(data) ==
  IF data.mode = "image"
  THEN (IF data.chainedMode THEN "/predict/chained_image" ELSE "/predict/image")
  ELSE (IF data.chainedMode THEN "/predict/chained_text" ELSE "/predict/text")

\* onSubmit lines 73-78 (FormData: prompt, image) and 81 (JSON: prompt, system)
RequestBody(data, image) ==
  IF data.mode = "image"
  THEN [kind |-> "multipart", fields |-> <<"prompt", "image">>,
        prompt |-> data.prompt, system |-> <<>>, image |-> image]
  ELSE [kind |-> "json", fields |-> <<"prompt", "system">>,
        prompt |-> data.prompt, system |-> data.system, image |-> NoFile]

\* onSubmit lines 64, 82 and 87
RequestHeaders(data) ==
  IF data.mode = "image"
  THEN {<<"accept", "application/json">>}
  ELSE {<<"accept", "application/json">>, <<"Content-Type", "application/json">>}

\* the argument of fetch, lines 85-89
BuildRequest(data, image) ==
  [url |-> FetchUrl(data), method |-> "POST",
   headers |-> RequestHeaders(data), body |-> RequestBody(data, image)]

\* ------------------------------------------------- onSubmit: the response
\* A JSON payload: t is "obj" (fields: a sequence of members), "null" (the
\* JSON value null) or "bad" (a body that is not JSON).  A member has a key k
\* and a value of type t: "str" (s), "num" (n) or "null".
Member(k, t, s, n) == [k |-> k, t |-> t, s |-> s, n |-> n]
StrMember(k, s) == Member(k, "str", s, 0)
NumMember(k, n) == Member(k, "num", <<>>, n)
Obj(fields) == [t |-> "obj", fields |-> fields]
JsonNull == [t |-> "null", fields |-> <<>>]
NotJson == [t |-> "bad", fields |-> <<>>]

HasKey(payload, k) == \E i \in 1..Len(payload.fields) : payload.fields[i].k = k
\* the last member of that key wins, as in JSON.parse
Get(payload, k) ==
  payload.fields[CHOOSE i \in 1..Len(payload.fields) :
                   /\ payload.fields[i].k = k
                   /\ \A j \in (i + 1)..Len(payload.fields) : payload.fields[j].k # k]

\* JavaScript truthiness of result[k] (undefined when the key is missing)
Truthy(payload, k) ==
  /\ HasKey(payload, k)
  /\ LET m == Get(payload, k) IN
       CASE m.t = "str" -> m.s # <<>>
         [] m.t = "num" -> m.n # 0
         [] OTHER -> FALSE

\* JSON.stringify of a string: quoted, the control characters escaped
RECURSIVE Escaped(_)
Escaped(t) ==
  IF t = <<>> THEN <<>>
  ELSE LET c == Head(t)[1]
           e == CASE c = "\n" -> "\\n" [] c = "\t" -> "\\t" [] OTHER -> c
       IN << <<e, Head(t)[2]>> >> \o Escaped(Tail(t))
Quoted(t) == T("\"") \o Escaped(t) \o T("\"")

MemberJson(m) ==
  CASE m.t = "str" -> Quoted(m.s)
    [] m.t = "num" -> T(ToString(m.n))
    [] OTHER -> T("null")

RECURSIVE MembersJson(_)
MembersJson(fields) ==
  IF fields = <<>> THEN <<>>
  ELSE T("  ") \o Quoted(T(Head(fields).k)) \o T(": ") \o MemberJson(Head(fields))
       \o (IF Tail(fields) = <<>> THEN <<>> ELSE T(",\n") \o MembersJson(Tail(fields)))

\* JSON.stringify(result, null, 2) of an object whose keys are distinct
PrettyJson(payload) ==
  IF payload.fields = <<>> THEN T("{}")
  ELSE T("{\n") \o MembersJson(payload.fields) \o T("\n}")

\* what the runtime reports (the wording is the engine's)
SyntaxErrorMessage == T("Unexpected token < in JSON at position 0")
NullReadMessage == T("Cannot read properties of null (reading 'final_response')")
NotAFunctionMessage(k) == T("result.") \o T(k) \o T(".trim is not a function")
FailedToFetch == T("Failed to fetch")

Shown(display) == [threw |-> FALSE, text |-> display]
Thrown(message) == [threw |-> TRUE, text |-> message]

\* result[k].trim(), lines 99 and 101
TrimmedMember(payload, k) ==
  IF Get(payload, k).t = "str"
  THEN Shown(Trim(Get(payload, k).s))
  ELSE Thrown(NotAFunctionMessage(k))

\* lines 96-104: res.json() and the choice of the text to display
ResultOutcome(payload) ==
  IF payload.t = "bad" THEN Thrown(SyntaxErrorMessage)
  ELSE IF payload.t = "null" THEN Thrown(NullReadMessage)
  ELSE IF Truthy(payload, "final_response") THEN TrimmedMember(payload, "final_response")
  ELSE IF Truthy(payload, "response") THEN TrimmedMember(payload, "response")
  ELSE Shown(PrettyJson(payload))

\* line 93
HttpErrorMessageMutantNoBody(status, errorText) ==
  T("HTTP error! status: ") \o T(ToString(status))
HttpErrorMessage(status, errorText) ==
  T("HTTP error! status: ") \o T(ToString(status)) \o T(", message: ") \o errorText

\* line 109
ErrorDisplay(message) == T("Error: ") \o message

\* sonner toasts
NoToast == [kind |-> "none", msg |-> ""]
ToastMissingImage == [kind |-> "error", msg |-> "Please select an image before submitting"]
ToastSuccess == [kind |-> "success", msg |-> "Response received successfully"]
ToastFailure == [kind |-> "error", msg |-> "Failed to get response"]

\* FileReader.readAsDataURL
DataURL(file) == "data:image/png;base64," \o file
NoPreview == ""

\* -------------------------------------------------------------- the state
VARIABLES
  form,            \* react-hook-form's field values (lines 30-38)
  errors,          \* form.formState.errors as the last handleSubmit left them
  response,        \* useState, line 25
  isLoading,       \* useState, line 26
  selectedImage,   \* useState, line 27
  imagePreview,    \* useState, line 28
  readers,         \* the files of the FileReaders whose read is pending
  submitDisabled,  \* the disabled attribute of the submit button as rendered
  runs,            \* the handleSubmit(onSubmit) invocations in progress
  ev               \* what the last step did to a run, if it concerned one

vars ==
  <<form, errors, response, isLoading, selectedImage, imagePreview, readers,
    submitDisabled, runs, ev>>

\* A run: pc is "validating" (awaiting the resolver), "fetching" (awaiting
\* fetch), "text" (awaiting res.text()) or "json" (awaiting res.json()).
\* req and res hold at most one element: the request sent, the response got.
NewRun(values, image) ==
  [pc |-> "validating", values |-> values, image |-> image, req |-> <<>>, res |-> <<>>]

\* ev: what the last step did to a run: the run as it was (at most one), how
\* the step left it, the toast emitted and the requests sent (at most one);
\* Quiet after any other step
Event(op, run, toast, sent) == [op |-> op, run |-> run, toast |-> toast, sent |-> sent]
Quiet == Event("-", <<>>, NoToast, <<>>)

RemoveAt(seq, i) == SubSeq(seq, 1, i - 1) \o SubSeq(seq, i + 1, Len(seq))

Init ==
  /\ form = DefaultValues
  /\ errors = NoErrors
  /\ response = <<>>
  /\ isLoading = FALSE
  /\ selectedImage = NoFile
  /\ imagePreview = NoPreview
  /\ readers = <<>>
  /\ submitDisabled = FALSE
  /\ runs = <<>>
  /\ ev = Quiet

\* ------------------------------------------------------ the form controls
\* RadioGroup onValueChange, line 144
SetMode(m) ==
  /\ m # form.mode
  /\ form' = [form EXCEPT !.mode = m]
  /\ ev' = Quiet
  /\ UNCHANGED <<errors, response, isLoading, selectedImage, imagePreview, readers,
                 submitDisabled, runs>>

\* Checkbox onCheckedChange, line 234
ToggleChained ==
  /\ form' = [form EXCEPT !.chainedMode = ~form.chainedMode]
  /\ ev' = Quiet
  /\ UNCHANGED <<errors, response, isLoading, selectedImage, imagePreview, readers,
                 submitDisabled, runs>>

\* Textarea registered as "prompt", line 170
TypePrompt(p) ==
  /\ p # form.prompt
  /\ form' = [form EXCEPT !.prompt = p]
  /\ ev' = Quiet
  /\ UNCHANGED <<errors, response, isLoading, selectedImage, imagePreview, readers,
                 submitDisabled, runs>>

\* Input registered as "system", rendered in text mode only (lines 177-191);
\* its value stays in the form when the field is not rendered
TypeSystem(s) ==
  /\ form.mode = "text"
  /\ s # form.system
  /\ form' = [form EXCEPT !.system = s]
  /\ ev' = Quiet
  /\ UNCHANGED <<errors, response, isLoading, selectedImage, imagePreview, readers,
                 submitDisabled, runs>>

\* ------------------------------------------------------- the image picker
\* handleImageChange, lines 42-55; the file input is rendered in image mode
\* only (lines 193-228).  file = NoFile: the change left no file selected.
\* A change event is a change of the selection.
HandleImageChange(file) ==
  /\ form.mode = "image"
  /\ file # selectedImage
  /\ IF file # NoFile
     THEN /\ Len(readers) < MaxReads
          /\ selectedImage' = file
          /\ readers' = Append(readers, file)
          /\ UNCHANGED imagePreview
     ELSE /\ selectedImage' = NoFile
          /\ imagePreview' = NoPreview
          /\ UNCHANGED readers
  /\ ev' = Quiet
  /\ UNCHANGED <<form, errors, response, isLoading, submitDisabled, runs>>

\* reader.onload, lines 47-49: any pending read may be the next to complete
ReaderOnLoad(i) ==
  /\ i \in 1..Len(readers)
  /\ imagePreview' = DataURL(readers[i])
  /\ readers' = RemoveAt(readers, i)
  /\ ev' = Quiet
  /\ UNCHANGED <<form, errors, response, isLoading, selectedImage, submitDisabled, runs>>

\* ------------------------------------------------------------- submission
\* the re-render that applies isLoading to the submit button, lines 241-245
Render ==
  /\ submitDisabled # isLoading
  /\ submitDisabled' = isLoading
  /\ ev' = Quiet
  /\ UNCHANGED <<form, errors, response, isLoading, selectedImage, imagePreview,
                 readers, runs>>

\* a submit event on the form, line 139: handleSubmit takes the field values
\* and awaits the resolver; onSubmit is the closure of the current render
SubmitEvent ==
  /\ ~submitDisabled
  /\ Len(runs) < MaxPending
  /\ runs' = Append(runs, NewRun(form, selectedImage))
  /\ ev' = Quiet
  /\ UNCHANGED <<form, errors, response, isLoading, selectedImage, imagePreview,
                 readers, submitDisabled>>

\* the resolver settles.  With errors handleSubmit records them and onSubmit
\* is not called; without, onSubmit runs up to its return (lines 66-71) or to
\* the await of fetch (line 85).
ResolverSettles(i) ==
  /\ i \in 1..Len(runs)
  /\ runs[i].pc = "validating"
  /\ LET run == runs[i]
         errs == ResolverErrors(run.values)
         data == ParsedData(run.values)
         req == BuildRequest(data, run.image)
     IN IF errs # NoErrors
        THEN /\ errors' = errs
             /\ runs' = RemoveAt(runs, i)
             /\ ev' = Event("Invalid", <<run>>, NoToast, <<>>)
             /\ UNCHANGED <<response, isLoading>>
        ELSE IF MissingImage(data, run.image)
        THEN /\ errors' = NoErrors
             /\ response' = <<>>
             /\ isLoading' = FALSE
             /\ runs' = RemoveAt(runs, i)
             /\ ev' = Event("MissingImage", <<run>>, ToastMissingImage, <<>>)
        ELSE /\ errors' = NoErrors
             /\ response' = <<>>
             /\ isLoading' = TRUE
             /\ runs' = [runs EXCEPT ![i] = [run EXCEPT !.pc = "fetching", !.req = <<req>>]]
             /\ ev' = Event("Fetch", <<run>>, NoToast, <<req>>)
  /\ UNCHANGED <<form, selectedImage, imagePreview, readers, submitDisabled>>

\* lines 107-113: catch and finally
Fails(i, op, message) ==
  /\ response' = ErrorDisplay(message)
  /\ isLoading' = FALSE
  /\ runs' = RemoveAt(runs, i)
  /\ ev' = Event(op, <<runs[i]>>, ToastFailure, <<>>)

\* fetch resolves with a response: line 91 chooses res.text() or res.json()
FetchResolves(i, res) ==
  /\ i \in 1..Len(runs)
  /\ runs[i].pc = "fetching"
  /\ runs' = [runs EXCEPT ![i] = [@ EXCEPT !.pc = IF res.ok THEN "json" ELSE "text",
                                           !.res = <<res>>]]
  /\ ev' = Quiet
  /\ UNCHANGED <<form, errors, response, isLoading, selectedImage, imagePreview,
                 readers, submitDisabled>>

\* fetch rejects (no connection): lines 107-113
FetchRejects(i) ==
  /\ i \in 1..Len(runs)
  /\ runs[i].pc = "fetching"
  /\ Fails(i, "FetchRejects", FailedToFetch)
  /\ UNCHANGED <<form, errors, selectedImage, imagePreview, readers, submitDisabled>>

\* res.text() resolves with the body text: lines 92-93, then 107-113
TextRead(i) ==
  /\ i \in 1..Len(runs)
  /\ runs[i].pc = "text"
  /\ Fails(i, "HttpError", HttpErrorMessage(runs[i].res[1].status, runs[i].res[1].text))
  /\ UNCHANGED <<form, errors, selectedImage, imagePreview, readers, submitDisabled>>

\* res.json() settles: lines 96-106, or 107-113 when something threw
JsonRead(i) ==
  /\ i \in 1..Len(runs)
  /\ runs[i].pc = "json"
  /\ LET out == ResultOutcome(runs[i].res[1].payload)
     IN IF out.threw
        THEN Fails(i, "Threw", out.text)
        ELSE /\ response' = out.text
             /\ isLoading' = FALSE
             /\ runs' = RemoveAt(runs, i)
             /\ ev' = Event("Success", <<runs[i]>>, ToastSuccess, <<>>)
  /\ UNCHANGED <<form, errors, selectedImage, imagePreview, readers, submitDisabled>>

\* ------------------------------------------------------------- the inputs
Scan == "scan.png"
Files == {Scan, "xray.png"}

Hello == T(" ") \o T("Hello") \o T("\n")
Blank == Rep(" ", 2) \o T("\n")
PaddedAtLimit == T(" ") \o Rep("x", PromptMax) \o T(" ")
OverLimit == Rep("x", PromptMax + 1)
Prompts == {Blank, Hello, PaddedAtLimit, OverLimit}

LongSystem == Rep("y", SystemMax + 1)
Systems == {DefaultSystem, LongSystem}

HttpFailure(status, text) == [ok |-> FALSE, status |-> status, text |-> text, payload |-> NotJson]
HttpSuccess(payload) == [ok |-> TRUE, status |-> 200, text |-> <<>>, payload |-> payload]

Diagnosis == T(" ") \o T("Diagnosis: X") \o T("\n")
Answer == T("Answer") \o T(" ")
Payloads ==
  { Obj(<<StrMember("final_response", Diagnosis)>>),
    Obj(<<StrMember("response", Answer)>>),
    Obj(<<StrMember("response", Answer), StrMember("final_response", Diagnosis)>>),
    Obj(<<StrMember("output", Answer)>>),
    Obj(<<StrMember("final_response", <<>>), StrMember("response", Answer)>>),
    Obj(<<NumMember("final_response", 5)>>),
    JsonNull,
    NotJson }
ServerError == HttpFailure(500, T("server error"))
Failures == {ServerError, HttpFailure(404, T("Not Found") \o T("\n")), HttpFailure(503, <<>>)}

\* ------------------------------------------------------ the specifications
\* the requests: both modes, chained or not, one file, the network down
Next ==
  \/ \E m \in {"text", "image"} : SetMode(m)
  \/ ToggleChained
  \/ TypePrompt(Hello)
  \/ HandleImageChange(Scan)
  \/ ReaderOnLoad(1)
  \/ Render
  \/ SubmitEvent
  \/ \E i \in 1..MaxPending : ResolverSettles(i)
  \/ \E i \in 1..MaxPending : FetchRejects(i)

Spec == Init /\ [][Next]_vars

\* the responses: text mode, one prompt, every response
NextResponses ==
  \/ TypePrompt(Hello)
  \/ Render
  \/ SubmitEvent
  \/ \E i \in 1..MaxPending : ResolverSettles(i)
  \/ \E i \in 1..MaxPending : \E p \in Payloads : FetchResolves(i, HttpSuccess(p))
  \/ \E i \in 1..MaxPending : \E res \in Failures : FetchResolves(i, res)
  \/ \E i \in 1..MaxPending : FetchRejects(i)
  \/ \E i \in 1..MaxPending : TextRead(i)
  \/ \E i \in 1..MaxPending : JsonRead(i)

SpecResponses == Init /\ [][NextResponses]_vars

\* the prompt: every prompt, both modes, the network down
NextForm ==
  \/ \E m \in {"text", "image"} : SetMode(m)
  \/ \E p \in Prompts : TypePrompt(p)
  \/ Render
  \/ SubmitEvent
  \/ \E i \in 1..MaxPending : ResolverSettles(i)
  \/ \E i \in 1..MaxPending : FetchRejects(i)

SpecForm == Init /\ [][NextForm]_vars

\* the system message: both modes, one prompt, one file, the network down
NextSystem ==
  \/ \E m \in {"text", "image"} : SetMode(m)
  \/ TypePrompt(Hello)
  \/ \E s \in Systems : TypeSystem(s)
  \/ HandleImageChange(Scan)
  \/ ReaderOnLoad(1)
  \/ Render
  \/ SubmitEvent
  \/ \E i \in 1..MaxPending : ResolverSettles(i)
  \/ \E i \in 1..MaxPending : FetchRejects(i)

SpecSystem == Init /\ [][NextSystem]_vars

\* the image picker: every file, every order of the reads
NextPicker ==
  \/ \E m \in {"text", "image"} : SetMode(m)
  \/ \E f \in Files \cup {NoFile} : HandleImageChange(f)
  \/ \E i \in 1..MaxReads : ReaderOnLoad(i)

SpecPicker == Init /\ [][NextPicker]_vars

\* -------------------------------------------------------------- the claims
InFlight == {i \in 1..Len(runs) : runs[i].pc = "fetching"}
AllWhite(t) == \A k \in 1..Len(t) : t[k][1] \in WhiteSpace
NoImage(run) == run.values.mode = "image" /\ run.image = NoFile
ExpectedUrl(mode, chained) ==
  CASE mode = "text" /\ ~chained -> "/predict/text"
    [] mode = "text" /\ chained -> "/predict/chained_text"
    [] mode = "image" /\ ~chained -> "/predict/image"
    [] mode = "image" /\ chained -> "/predict/chained_image"

\* C1: a valid submission in image mode with no image selected ends in
\* onSubmit's early return: the error toast is emitted, no request is sent,
\* nothing is thrown (no error text is displayed) and isLoading is FALSE
\* after the step; such a run never has a request.
C1_MissingImageShortCircuits ==
  /\ \A i \in 1..Len(runs) :
       NoImage(runs[i]) => runs[i].pc = "validating" /\ runs[i].req = <<>>
  /\ (ev.run # <<>> /\ ev.op # "Invalid" /\ NoImage(ev.run[1]))
       => /\ ev.op = "MissingImage"
          /\ ev.toast.kind = "error"
          /\ ev.toast.msg = "Please select an image before submitting"
          /\ ev.sent = <<>>
          /\ isLoading = FALSE
          /\ response = <<>>

C1_Witness ==
  /\ ev.op = "MissingImage"
  /\ NoImage(ev.run[1])
  /\ ev.toast = ToastMissingImage
  /\ ~isLoading

\* C2: every run past validation has sent exactly one request, a POST to the
\* endpoint of its (mode, chainedMode); no step sends anything else.
C2_EndpointByModeAndChained ==
  /\ \A i \in 1..Len(runs) :
       IF runs[i].pc = "validating" THEN runs[i].req = <<>>
       ELSE /\ Len(runs[i].req) = 1
            /\ runs[i].req[1].method = "POST"
            /\ runs[i].req[1].url
                 = ExpectedUrl(runs[i].values.mode, runs[i].values.chainedMode)
  /\ Len(ev.sent) <= 1
  /\ \A k \in 1..Len(ev.sent) :
       /\ ev.op = "Fetch"
       /\ ev.sent[k].method = "POST"
       /\ ev.sent[k].url
            = ExpectedUrl(ev.run[1].values.mode, ev.run[1].values.chainedMode)

C2_Witness ==
  \E i \in 1..Len(runs) :
    /\ runs[i].values.mode = "image"
    /\ runs[i].values.chainedMode
    /\ runs[i].req # <<>>
    /\ runs[i].req[1].url = "/predict/chained_image"
    /\ runs[i].req[1].body.fields = <<"prompt", "image">>

\* C3: every run of onSubmit that ends leaves isLoading FALSE and has emitted
\* a success or failure toast, and isLoading is TRUE for as long as a call is
\* in flight.
C3_LoadingCoversTheCall ==
  /\ ev.op \in {"MissingImage", "FetchRejects", "HttpError", "Threw", "Success"}
       => isLoading = FALSE /\ ev.toast.kind \in {"success", "error"}
  /\ InFlight # {} => isLoading = TRUE

\* C4: at most one network call is in flight at any time.
C4_AtMostOneCallInFlight == Cardinality(InFlight) <= 1

\* C5: a submission whose prompt is empty or all white space ends at the
\* validation with "Prompt is required": onSubmit is not run, no request is
\* sent, isLoading and response are left as they were; no request carries a
\* prompt that is empty after trimming.
C5_BlankPromptRejected ==
  [][ /\ \A i \in 1..Len(runs') :
           /\ AllWhite(runs'[i].values.prompt) => runs'[i].pc = "validating"
           /\ \A k \in 1..Len(runs'[i].req) :
                /\ runs'[i].req[k].body.prompt # <<>>
                /\ ~AllWhite(runs'[i].req[k].body.prompt)
      /\ (ev'.run # <<>> /\ AllWhite(ev'.run[1].values.prompt))
           => /\ ev'.op = "Invalid"
              /\ errors'.prompt = "Prompt is required"
              /\ ev'.sent = <<>>
              /\ ev'.toast = NoToast
              /\ isLoading' = isLoading
              /\ response' = response ]_vars

C5_Witness ==
  /\ ev.op = "Invalid"
  /\ ev.run[1].values.prompt = Blank
  /\ ev.run[1].values.mode = "image"
  /\ errors.prompt = PromptRequired

\* C6 as stated: a prompt that is longer than 2000 characters as entered is
\* rejected and no request is sent for it.
C6_EnteredOverLimitRejected ==
  /\ \A i \in 1..Len(runs) :
       TextLen(runs[i].values.prompt) > PromptMax
         => runs[i].pc = "validating" /\ runs[i].req = <<>>
  /\ (ev.run # <<>> /\ TextLen(ev.run[1].values.prompt) > PromptMax)
       => ev.op = "Invalid" /\ ev.sent = <<>>

\* C6 amended: a prompt that is longer than 2000 characters after trimming is
\* rejected and no request is sent for it.
C6_TrimmedOverLimitRejected ==
  /\ \A i \in 1..Len(runs) :
       TextLen(Trim(runs[i].values.prompt)) > PromptMax
         => runs[i].pc = "validating" /\ runs[i].req = <<>>
  /\ (ev.run # <<>> /\ TextLen(Trim(ev.run[1].values.prompt)) > PromptMax)
       => /\ ev.op = "Invalid"
          /\ ev.sent = <<>>
          /\ errors.prompt = "Prompt must be less than 2000 characters"

C6_Witness ==
  /\ ev.op = "Invalid"
  /\ ev.run[1].values.prompt = OverLimit
  /\ errors.prompt = PromptTooLong

\* C7: after a 2xx response with a JSON object the display is the trimmed
\* final_response when the payload has that key, else the trimmed response
\* when it has that key, else the pretty-printed payload; the success toast is
\* emitted and the run did not fail.  (Stated for payloads whose
\* final_response and response members are strings.)
C7_DisplayByKeyPresence ==
  (/\ ev.run # <<>>
   /\ ev.run[1].pc = "json"
   /\ ev.run[1].res[1].payload.t = "obj"
   /\ \A k \in 1..Len(ev.run[1].res[1].payload.fields) :
        ev.run[1].res[1].payload.fields[k].t = "str")
    => LET payload == ev.run[1].res[1].payload
       IN /\ response
               = IF HasKey(payload, "final_response")
                   THEN Trim(Get(payload, "final_response").s)
                 ELSE IF HasKey(payload, "response")
                   THEN Trim(Get(payload, "response").s)
                 ELSE PrettyJson(payload)
          /\ ev.toast = ToastSuccess
          /\ ev.op = "Success"

\* C8: a response with a non-success status S and body text B is read as
\* text, never as JSON; the run ends there with the display
\* "Error: HTTP error! status: S, message: B" and the failure toast, and the
\* step sends no request.
C8_HttpErrorDisplayed ==
  /\ \A i \in 1..Len(runs) :
       (runs[i].res # <<>> /\ ~runs[i].res[1].ok) => runs[i].pc = "text"
  /\ (ev.run # <<>> /\ ev.run[1].res # <<>> /\ ~ev.run[1].res[1].ok)
       => /\ ev.op = "HttpError"
          /\ ev.run[1].pc = "text"
          /\ Str(response)
               = "Error: HTTP error! status: " \o ToString(ev.run[1].res[1].status)
                   \o ", message: " \o Str(ev.run[1].res[1].text)
          /\ ev.toast.kind = "error"
          /\ ev.toast.msg = "Failed to get response"
          /\ ev.sent = <<>>

C8_Witness ==
  /\ ev.op = "HttpError"
  /\ ev.run[1].res[1].status = 500
  /\ Str(response) = "Error: HTTP error! status: 500, message: server error"

\* C9: in image mode the outcome of a submission does not depend on the
\* system message: the validation decides as it does for the same values with
\* an empty system message, and the request does not carry the system message.
C9_SystemIgnoredInImageMode ==
  /\ \A i \in 1..Len(runs) : \A k \in 1..Len(runs[i].req) :
       runs[i].values.mode = "image"
         => /\ runs[i].req[k].body.fields = <<"prompt", "image">>
            /\ runs[i].req[k].body.system = <<>>
  /\ (ev.run # <<>> /\ ev.run[1].pc = "validating" /\ ev.run[1].values.mode = "image")
       => (ev.op = "Invalid")
            = (ResolverErrors([ev.run[1].values EXCEPT !.system = <<>>]) # NoErrors)

\* C10: once no read is pending the preview is the data URL of the selected
\* file, and the preview is empty whenever no file is selected.
C10_PreviewFollowsSelection ==
  /\ readers = <<>>
       => imagePreview
            = IF selectedImage = NoFile THEN NoPreview ELSE DataURL(selectedImage)
  /\ selectedImage = NoFile => imagePreview = NoPreview

====
